---- MODULE Spec2Model ----
(***************************************************************************)
(* okerr: the unified Result/Error alias over anyhow, the err!/anyerr!     *)
(* macros and the two normalizers wrap_err and from_boxed_error            *)
(* (src/src/lib.rs), together with the context / chain / downcast surface  *)
(* that the crate re-exports with `pub use anyhow::*`.                     *)
(*                                                                         *)
(* A value implementing std::error::Error is a non-empty sequence of nodes *)
(* [ty, msg]: the value itself followed by its source() links, each node   *)
(* carrying its concrete type and its Display text.                        *)
(***************************************************************************)
EXTENDS Integers, Sequences, FiniteSets, TLC

\* ---------------------------------------------------------------- bounds
MaxSourceLinks == 2
MaxContexts == 2
MaxLevels == 2
MaxArg == 10
MaxNumbers == 3
MaxBatch == 3
MaxNest == 4
MaxRounds == 2

\* ------------------------------------------------------ inputs of the runs
Vals == {42, 10}

IoNotFound == [ty |-> "io::Error", msg |-> "file not found"]
CustomFailed == [ty |-> "CustomError", msg |-> "CustomError: operation failed"]
EyreConfig == [ty |-> "eyre::Report", msg |-> "failed to read config"]

Nodes == {IoNotFound, CustomFailed, EyreConfig}

CtxMsgs == {"level1 context", "level2 context"}

MacroMsgs == {"Cannot divide by zero", "Oops!"}

SeqsUpTo(S, n) == UNION {[1..k -> S] : k \in 1..n}

\* every contract-implementing error value with at most MaxSourceLinks links
StdErrors == SeqsUpTo(Nodes, MaxSourceLinks + 1)

\* ------------------------------------------- std::error::Error contract
Display(e) == Head(e).msg

\* None is the empty sequence
source(e) == IF Len(e) > 1 THEN Tail(e) ELSE <<>>

TypeOf(e) == Head(e).ty

\* Box<dyn Error + Send + Sync>: owns the value, Display and source()
\* dispatch to it
Box_new(e) == [boxed |-> e]

BoxDisplay(b) == Display(b.boxed)

BoxSource(b) == source(b.boxed)

\* the successive source() links of a &dyn Error, the value itself first
RECURSIVE Walk(_)
Walk(e) == IF e = <<>> THEN <<>> ELSE <<Head(e)>> \o Walk(source(e))

\* ---------------------------------------------------------- std Result
Ok(v) == [tag |-> "Ok", val |-> v]

Err(x) == [tag |-> "Err", err |-> x]

Pending == [tag |-> "Pending"]

is_ok(r) == r.tag = "Ok"

is_err(r) == r.tag = "Err"

map_err(r, F(_)) == IF is_err(r) THEN Err(F(r.err)) ELSE r

\* ------------------------------------------------------- anyhow::Error
\* Error::new(e): the value is stored as the object, the vtable downcasts
\* to its concrete type
Error_new(e) == [vtable |-> "object", object |-> e]

\* Error::from_boxed(b): the box is stored inside a BoxedError wrapper, the
\* vtable downcasts to the box type
Error_from_boxed(b) == [vtable |-> "boxed", object |-> b]

\* a message error that keeps a copy of its message as its source
Error_msg_with_source(m) ==
    [vtable |-> "context",
     object |-> [context |-> m,
                 error |-> <<[ty |-> "MessageError", msg |-> m]>>]]

\* anyhow!("..."): a MessageError over the formatted message
Error_msg(m) == [vtable |-> "adhoc", object |-> m]

\* a context() that keeps only the new message and drops the wrapped error
Error_context_replacing(err, c) == [vtable |-> "adhoc", object |-> c]

\* Error::context(c): ContextError { context, error: Error }
Error_context(err, c) ==
    [vtable |-> "context_chain", object |-> [context |-> c, error |-> err]]

\* context on a contract-implementing value: ContextError { context, error: E }
ext_context(e, c) ==
    [vtable |-> "context", object |-> [context |-> c, error |-> e]]

\* the object of an Error seen as &dyn std::error::Error
RECURSIVE error(_)
error(err) ==
    CASE err.vtable = "object" -> err.object
      [] err.vtable = "boxed" ->
            <<[ty |-> "BoxedError", msg |-> BoxDisplay(err.object)]>>
                \o BoxSource(err.object)
      [] err.vtable = "adhoc" ->
            <<[ty |-> "MessageError", msg |-> err.object]>>
      [] err.vtable = "context" ->
            <<[ty |-> "ContextError", msg |-> err.object.context]>>
                \o err.object.error
      [] err.vtable = "context_chain" ->
            <<[ty |-> "ContextError", msg |-> err.object.context]>>
                \o error(err.object.error)

\* a chain() that yields the root cause first
chain_root_first(err) ==
    LET c == Walk(error(err)) IN [i \in 1..Len(c) |-> c[Len(c) + 1 - i]]

\* Error::chain(): iterates error() and then its source() links
chain(err) == Walk(error(err))

\* err.chain().map(|e| e.to_string()).collect()
chain_messages(err) == [i \in 1..Len(chain(err)) |-> chain(err)[i].msg]

chain_count(err) == Len(chain(err))

\* Display of an Error is the Display of its object
to_string(err) == Display(error(err))

\* an into-box that wraps the error and reports it as its source
Error_into_boxed_wrapping(err) ==
    Box_new(<<[ty |-> "ErrorImpl", msg |-> to_string(err)]>> \o error(err))

\* From<anyhow::Error> for Box<dyn Error + Send + Sync>: the box shows the
\* error's object: Display and source() are those of error()
Error_into_boxed(err) == Box_new(error(err))

\* a {:?} that prints the head message only
debug_format_head_only(err) ==
    [message |-> to_string(err), caused_by |-> <<>>]

\* format!("{:?}", err): the Display of the error, then under "Caused by:"
\* the Display of every source() link, numbered when there are several
debug_format(err) ==
    LET causes == Walk(source(error(err)))
    IN  [message |-> to_string(err),
         caused_by |-> [i \in 1..Len(causes) |->
                          [index |-> IF Len(causes) > 1 THEN i - 1 ELSE -1,
                           text |-> causes[i].msg]]]

\* Error::downcast_ref::<target>().is_some()
RECURSIVE downcast_ref(_, _)
downcast_ref(err, target) ==
    CASE err.vtable = "object" -> target = TypeOf(err.object)
      [] err.vtable = "boxed" -> target = "Box<dyn Error>"
      [] err.vtable = "adhoc" -> target = "&str"
      [] err.vtable = "context" ->
            \/ target = "&str"
            \/ target = TypeOf(err.object.error)
      [] err.vtable = "context_chain" ->
            \/ target = "&str"
            \/ downcast_ref(err.object.error, target)

\* a downcast that looks at the outermost object only
downcast_outermost(err, target) ==
    CASE err.vtable = "object" ->
            IF target = TypeOf(err.object) THEN Ok(err.object) ELSE Err(err)
      [] err.vtable = "boxed" ->
            IF target = "Box<dyn Error>" THEN Ok(err.object) ELSE Err(err)
      [] err.vtable = "adhoc" ->
            IF target = "&str" THEN Ok(err.object) ELSE Err(err)
      [] err.vtable \in {"context", "context_chain"} ->
            IF target = "&str" THEN Ok(err.object.context) ELSE Err(err)

\* Error::downcast::<target>(): Ok(the value of that type) or Err(self); a
\* context layer answers for its context type and for the error below it
RECURSIVE downcast(_, _)
downcast(err, target) ==
    CASE err.vtable = "object" ->
            IF target = TypeOf(err.object) THEN Ok(err.object) ELSE Err(err)
      [] err.vtable = "boxed" ->
            IF target = "Box<dyn Error>" THEN Ok(err.object) ELSE Err(err)
      [] err.vtable = "adhoc" ->
            IF target = "&str" THEN Ok(err.object) ELSE Err(err)
      [] err.vtable = "context" ->
            IF target = "&str" THEN Ok(err.object.context)
            ELSE IF target = TypeOf(err.object.error)
            THEN Ok(err.object.error)
            ELSE Err(err)
      [] err.vtable = "context_chain" ->
            IF target = "&str" THEN Ok(err.object.context)
            ELSE LET below == downcast(err.object.error, target)
                 IN  IF is_ok(below) THEN below ELSE Err(err)

\* Context::context on a Result<T, anyhow::Error>
context(r, c) == IF is_err(r) THEN Err(Error_context(r.err, c)) ELSE r

\* Context::context on a Result<T, E> with E a contract-implementing type
std_context(result, c) ==
    IF is_err(result) THEN Err(ext_context(result.err, c)) ELSE result

\* a with_context that evaluates its closure before looking at the result
with_context_eager(r, c) ==
    [result |-> context(r, c), evaluated |-> 1]

\* Context::with_context(|| c) on a Result<T, anyhow::Error>: the closure is
\* called inside map_err; evaluated counts its calls
with_context(r, c) ==
    IF is_err(r)
    THEN [result |-> Err(Error_context(r.err, c)), evaluated |-> 1]
    ELSE [result |-> r, evaluated |-> 0]

\* Context::with_context(|| c) on a Result<T, E>
std_with_context(result, c) ==
    IF is_err(result)
    THEN [result |-> Err(ext_context(result.err, c)), evaluated |-> 1]
    ELSE [result |-> result, evaluated |-> 0]

\* a `?` that rebuilds the failure from its message
question_flattening(r) ==
    IF is_err(r) THEN Err(Error_msg(to_string(r.err))) ELSE Ok(r.val)

\* the `?` operator in a function returning okerr::Result: a failure is
\* returned through From<Error> for Error, a success yields its value
question(r) == IF is_err(r) THEN Err(r.err) ELSE Ok(r.val)

\* `?` on a Result<T, E>: the failure is converted by From<E> for Error
question_std(result) ==
    IF is_err(result) THEN Err(Error_new(result.err)) ELSE Ok(result.val)

\* ------------------------------------------------------------- okerr
\* a from_boxed_error that formats the box into a new message: anyhow!("{}", b)
from_boxed_error_flattening(boxed_err) == Error_msg(BoxDisplay(boxed_err))

from_boxed_error(boxed_err) == Error_from_boxed(boxed_err)

\* a wrap_err that annotates the failure the way eyre's wrap_err does
wrap_err_annotating(result) ==
    map_err(result, LAMBDA e : ext_context(e, "wrap_err failed"))

\* a wrap_err that swallows the failure: Ok(result.unwrap_or_default())
wrap_err_swallowing(result) == IF is_err(result) THEN Ok(0) ELSE result

\* a wrap_err that goes through a box: map_err(|e| from_boxed_error(e.into()))
wrap_err_boxing(result) ==
    map_err(result, LAMBDA e : from_boxed_error(Box_new(e)))

wrap_err(result) == map_err(result, Error_new)

\* result.map_err(|e| from_boxed_error(e.into()))
FromBoxedOf(e) == from_boxed_error(Box_new(e))

convert_boxed(result) == map_err(result, FromBoxedOf)

\* anyerr!(e) for a contract-implementing e
anyerr_of(e) == Error_new(e)

\* err!("msg")
err_msg(m) == Err(Error_msg(m))

\* ------------------------------------------------------ macro arguments
\* a macro is given a literal message, a format string with arguments, or a
\* contract-implementing error value
Literal(text) == [kind |-> "literal", text |-> text]

Format(pieces, args) == [kind |-> "format", pieces |-> pieces, args |-> args]

ErrorValue(e) == [kind |-> "error", value |-> e]

Lit(t) == [kind |-> "lit", text |-> t]

Pos == [kind |-> "pos", text |-> "{}"]

Named(n) == [kind |-> "named", text |-> n]

I32(n) == [ty |-> "i32", v |-> n]

Str(t) == [ty |-> "str", v |-> t]

\* Display of a format argument
show(a) == IF a.ty = "i32" THEN ToString(a.v) ELSE a.v

\* format!(..): each {} takes the next positional argument, each {name} the
\* argument of that name
RECURSIVE format_from(_, _, _, _)
format_from(pieces, args, i, k) ==
    IF i > Len(pieces) THEN ""
    ELSE LET p == pieces[i]
         IN  CASE p.kind = "lit" ->
                    p.text \o format_from(pieces, args, i + 1, k)
               [] p.kind = "pos" ->
                    show(args.pos[k]) \o format_from(pieces, args, i + 1, k + 1)
               [] p.kind = "named" ->
                    show(args.named[p.text])
                        \o format_from(pieces, args, i + 1, k)

format(pieces, args) == format_from(pieces, args, 1, 1)

NoNamed == [name |-> Str(""), age |-> I32(0)]

\* "error with value: {}", value
FmtValue(n) ==
    Format(<<Lit("error with value: "), Pos>>,
           [pos |-> <<I32(n)>>, named |-> NoNamed])

\* "values: {} and {}", a, b
FmtValues(a, b) ==
    Format(<<Lit("values: "), Pos, Lit(" and "), Pos>>,
           [pos |-> <<I32(a), I32(b)>>, named |-> NoNamed])

\* "User {name} is {age} years old", name = name, age = age
FmtUser(name, age) ==
    Format(<<Lit("User "), Named("name"), Lit(" is "), Named("age"),
             Lit(" years old")>>,
           [pos |-> <<>>, named |-> [name |-> Str(name), age |-> I32(age)]])

MacroInputs ==
    {Literal(m) : m \in MacroMsgs}
        \cup {FmtValue(42), FmtValue(-5), FmtValues(10, 20),
              FmtUser("Alice", 30)}
        \cup {ErrorValue(e) : e \in StdErrors}

\* ------------------------------------------------- okerr::derive::Error
\* a struct or enum variant with #[derive(Error)]: its #[error("..")]
\* format and the attribute of its field, "source", "from" or "none"
Decl(ty, pieces, attr) == [ty |-> ty, error |-> pieces, attr |-> attr]

\* the field of a derived error: a String or an error value
StringField(t) == [kind |-> "string", v |-> t]

ErrorField(e) == [kind |-> "error", v |-> e]

\* a derive whose source() is always None
derive_source_none(decl, field) == <<>>

\* the derived source(): the field marked #[source] or #[from]
derive_source(decl, field) ==
    IF decl.attr \in {"source", "from"} /\ field.kind = "error"
    THEN field.v
    ELSE <<>>

\* the derived Display: the #[error("..")] format, {0} being the field
derive_Display(decl, field) ==
    format(decl.error,
           [pos |-> <<Str(IF field.kind = "string"
                          THEN field.v ELSE Display(field.v))>>,
            named |-> NoNamed])

\* a value of the derived type: its own node, then its source() links
Construct(decl, field) ==
    <<[ty |-> decl.ty, msg |-> derive_Display(decl, field)]>>
        \o derive_source(decl, field)

\* the derived From<FieldType>: only for a field marked #[from]
derive_From(decl, e) ==
    IF decl.attr = "from" THEN Construct(decl, ErrorField(e)) ELSE <<>>

\* From<E> for anyhow::Error, used by .into() and `?`
Error_from(e) == Error_new(e)

InnerErrorDecl == Decl("InnerError", <<Lit("inner error: "), Pos>>, "none")

MiddleErrorDecl == Decl("MiddleError", <<Lit("middle error")>>, "source")

OuterErrorDecl == Decl("OuterError", <<Lit("outer error")>>, "source")

\* struct Level<k>(#[source] ..) with #[error("level <k>")]
LevelDecl(k) ==
    Decl("Level" \o ToString(k), <<Lit("level " \o ToString(k))>>, "source")

AppError_Io == Decl("AppError::Io", <<Lit("io error")>>, "from")

AppError_Custom ==
    Decl("AppError::Custom", <<Lit("custom error: "), Pos>>, "none")

OuterError_Outer == Decl("OuterError::Outer", <<Lit("outer error")>>, "from")

IoConfig == [ty |-> "io::Error", msg |-> "config"]

IoDeepest == [ty |-> "io::Error", msg |-> "deepest"]

\* OuterError { source: MiddleError { source: InnerError(text) } }, cut to
\* its d innermost types
InnerNest(d, text) ==
    LET inner == Construct(InnerErrorDecl, StringField(text))
        middle == Construct(MiddleErrorDecl, ErrorField(inner))
        outer == Construct(OuterErrorDecl, ErrorField(middle))
    IN  CASE d = 1 -> inner
          [] d = 2 -> middle
          [] d = 3 -> outer

\* Level<k>(Level<k+1>(.. Level<n>(io) ..))
RECURSIVE LevelNest(_, _, _)
LevelNest(k, n, io) ==
    IF k > n THEN <<io>>
    ELSE Construct(LevelDecl(k), ErrorField(LevelNest(k + 1, n, io)))

\* the values whose source() links are walked
Nests ==
    {InnerNest(d, t) : d \in 1..3, t \in {"deepest error", "root cause"}}
        \cup {LevelNest(1, n, io) : n \in 0..MaxNest,
                                    io \in {IoDeepest, IoNotFound}}
        \cup {Construct(AppError_Custom, StringField("test"))}

\* a #[from] variant and the error it is built from
FromInputs ==
    {[variant |-> AppError_Io, e |-> <<IoConfig>>],
     [variant |-> AppError_Io, e |-> <<IoNotFound>>],
     [variant |-> OuterError_Outer,
      e |-> Construct(InnerErrorDecl, StringField("test"))]}

\* -------------------------------------------------------------- macros
\* anyhow::anyhow!(..): a message becomes a MessageError, an error value is
\* wrapped as by Error::new
anyhow(v) ==
    CASE v.kind = "literal" -> Error_msg(v.text)
      [] v.kind = "format" -> Error_msg(format(v.pieces, v.args))
      [] v.kind = "error" -> Error_new(v.value)

\* what a macro call does to the enclosing function: it yields a value, or
\* it returns val from the function; built counts the errors it constructs
Value(v, n) == [ctl |-> "value", val |-> v, built |-> n]

Return(v, n) == [ctl |-> "return", val |-> v, built |-> n]

Unit == "()"

anyerr_macro(v) == Value(anyhow(v), 1)

\* an err! that returns from the enclosing function like bail!
err_macro_returning(v) == Return(Err(anyhow(v)), 1)

err_macro(v) == Value(Err(anyhow(v)), 1)

\* a fail! that only builds the failure, like err!
fail_macro_not_returning(v) == Value(Err(anyhow(v)), 1)

\* a fail! that reports a fixed message instead of its arguments
fail_macro_fixed_message(v) == Return(Err(Error_msg("error")), 1)

\* anyhow::bail!(..): return Err(anyhow!(..))
fail_macro(v) == Return(Err(anyhow(v)), 1)

\* an ensure! with the test inverted
ensure_macro_inverted(cond, v) ==
    IF cond THEN Return(Err(anyhow(v)), 1) ELSE Value(Unit, 0)

\* an ensure! that builds the failure and lets the function go on
ensure_macro_not_returning(cond, v) ==
    IF cond THEN Value(Unit, 0) ELSE Value(Err(anyhow(v)), 1)

\* anyhow::ensure!(cond, ..): if !cond { return Err(anyhow!(..)) }
ensure_macro(cond, v) ==
    IF cond THEN Value(Unit, 0) ELSE Return(Err(anyhow(v)), 1)

\* a division that rounds toward minus infinity
i32_div_floor(a, b) ==
    LET abs(x) == IF x < 0 THEN -x ELSE x
        q == abs(a) \div abs(b)
    IN  IF (a < 0) # (b < 0)
        THEN (IF abs(a) % abs(b) = 0 THEN -q ELSE -q - 1)
        ELSE q

\* i32 division, truncating toward zero (b # 0)
i32_div(a, b) ==
    LET abs(x) == IF x < 0 THEN -x ELSE x
        q == abs(a) \div abs(b)
    IN  IF (a < 0) # (b < 0) THEN -q ELSE q

\* --------------------------------------------------------------- state
\* src: the Result<T, E> under conversion; msg: the argument of err!;
\* r: the unified result obtained on each path; layers: the context
\* messages added so far, oldest first; level: number of `?` returns;
\* lazyCalls: number of with_context calls made; evals: on each path, the
\* number of times a with_context closure ran; frame: the function call in
\* progress (FnSpec)
VARIABLES src, msg, r, layers, level, lazyCalls, evals, frame

vars == <<src, msg, r, layers, level, lazyCalls, evals, frame>>

\* "std" is src itself, used with .context(..) and `?` without a normalizer
Converted == {"wrap_err", "map_err", "from_boxed", "anyerr", "err"}

Paths == Converted \cup {"std"}

\* no function call in progress
NoCall == [fn |-> "none", pc |-> "done"]

Init ==
    /\ src \in {Ok(v) : v \in Vals} \cup {Err(e) : e \in StdErrors}
    /\ msg \in MacroMsgs
    /\ r = [p \in Paths |-> Pending]
    /\ layers = <<>>
    /\ level = 0
    /\ lazyCalls = 0
    /\ evals = [p \in Paths |-> 0]
    /\ frame = NoCall

AllBuilt == \A p \in Converted : r[p].tag # "Pending"

\* okerr::wrap_err(src)
WrapErr ==
    /\ r["wrap_err"].tag = "Pending"
    /\ r' = [r EXCEPT !["wrap_err"] = wrap_err(src)]
    /\ UNCHANGED <<src, msg, layers, level, lazyCalls, evals, frame>>

\* src.map_err(okerr::Error::new)
MapErrNew ==
    /\ r["map_err"].tag = "Pending"
    /\ r' = [r EXCEPT !["map_err"] = map_err(src, Error_new)]
    /\ UNCHANGED <<src, msg, layers, level, lazyCalls, evals, frame>>

\* src.map_err(|e| from_boxed_error(e.into()))
ConvertBoxed ==
    /\ r["from_boxed"].tag = "Pending"
    /\ r' = [r EXCEPT !["from_boxed"] = convert_boxed(src)]
    /\ UNCHANGED <<src, msg, layers, level, lazyCalls, evals, frame>>

\* src.map_err(|e| anyerr!(e))
ConvertAnyerr ==
    /\ r["anyerr"].tag = "Pending"
    /\ r' = [r EXCEPT !["anyerr"] = map_err(src, anyerr_of)]
    /\ UNCHANGED <<src, msg, layers, level, lazyCalls, evals, frame>>

\* err!(msg)
ErrMacro ==
    /\ r["err"].tag = "Pending"
    /\ r' = [r EXCEPT !["err"] = err_msg(msg)]
    /\ UNCHANGED <<src, msg, layers, level, lazyCalls, evals, frame>>

\* .context(m) on each of the results
AddContext ==
    /\ AllBuilt
    /\ Len(layers) < MaxContexts
    /\ \E m \in CtxMsgs :
        /\ r' = [p \in Paths |->
                    IF r[p].tag = "Pending"
                    THEN std_context(src, m)
                    ELSE context(r[p], m)]
        /\ layers' = Append(layers, m)
    /\ UNCHANGED <<src, msg, level, lazyCalls, evals, frame>>

\* .with_context(|| m) on each of the results
AddWithContext ==
    /\ AllBuilt
    /\ Len(layers) < MaxContexts
    /\ \E m \in CtxMsgs :
        LET out == [p \in Paths |->
                      IF r[p].tag = "Pending"
                      THEN std_with_context(src, m)
                      ELSE with_context(r[p], m)]
        IN  /\ r' = [p \in Paths |-> out[p].result]
            /\ evals' = [p \in Paths |-> evals[p] + out[p].evaluated]
            /\ layers' = Append(layers, m)
    /\ lazyCalls' = lazyCalls + 1
    /\ UNCHANGED <<src, msg, level, frame>>

\* `?` : each result is handed to the caller one level up
Propagate ==
    /\ AllBuilt
    /\ level < MaxLevels
    /\ r' = [p \in Paths |->
                IF r[p].tag = "Pending"
                THEN question_std(src)
                ELSE question(r[p])]
    /\ level' = level + 1
    /\ UNCHANGED <<src, msg, layers, lazyCalls, evals, frame>>

Next ==
    \/ WrapErr
    \/ MapErrNew
    \/ ConvertBoxed
    \/ ConvertAnyerr
    \/ ErrMacro
    \/ AddContext
    \/ AddWithContext
    \/ Propagate

Spec == Init /\ [][Next]_vars

\* ------------------------------------------------------ function calls
\* The functions of the crate documentation and of the tests that use the
\* macros, run one statement at a time.  frame.trace lists the statements
\* executed, frame.ret is the value returned to the caller.
convVars == <<src, msg, r, layers, level, lazyCalls, evals>>

Unset == [tag |-> "Unset"]

NoLocals ==
    [variable |-> Unset, value |-> Unset, result |-> Unset,
     result1 |-> Unset, result2 |-> Unset, callee |-> Unset, cur |-> Unset,
     lvl |-> 0, sum |-> 0, i |-> 0, num |-> 0, count |-> 0,
     converted |-> <<>>]

Call(fn, args) ==
    [fn |-> fn, args |-> args, pc |-> "start", ret |-> Pending,
     trace |-> <<>>, locals |-> NoLocals, built |-> 0]

Args == -MaxArg..MaxArg

\* the innermost function of a chain of calls: inner() (fail!), step2()
\* (from_boxed_error over a foreign failure), operation() (a success)
Callees ==
    {[kind |-> "fail", v |-> Literal("inner failed")]}
        \cup {[kind |-> "boxed", e |-> e] : e \in StdErrors}
        \cup {[kind |-> "ok", val |-> 42]}

callee_result(c) ==
    CASE c.kind = "fail" -> fail_macro(c.v).val
      [] c.kind = "boxed" -> convert_boxed(Err(c.e))
      [] c.kind = "ok" -> wrap_err(Ok(c.val))

\* a &str as the sequence of its (ASCII) characters
Hello == <<"h", "e", "l", "l", "o">>

TenChars == <<"h", "e", "l", "l", "o", "h", "e", "l", "l", "o">>

ElevenChars == TenChars \o <<"!">>

\* "this is too long"
TooLong ==
    <<"t", "h", "i", "s", " ", "i", "s", " ", "t", "o", "o", " ",
      "l", "o", "n", "g">>

Strings == {<<>>, <<"h">>, Hello, TenChars, ElevenChars, TooLong}

LowerCase == <<"e", "g", "h", "i", "l", "n", "o", "s", "t">>

UpperCase == <<"E", "G", "H", "I", "L", "N", "O", "S", "T">>

\* char::to_uppercase on ASCII
to_uppercase_char(c) ==
    IF \E k \in 1..Len(LowerCase) : LowerCase[k] = c
    THEN UpperCase[CHOOSE k \in 1..Len(LowerCase) : LowerCase[k] = c]
    ELSE c

\* str::to_uppercase
to_uppercase(s) == [k \in 1..Len(s) |-> to_uppercase_char(s[k])]

\* the slices handed to all_positive and find_positive
NumberLists ==
    {<<>>} \cup SeqsUpTo({-3, 0, 2}, MaxNumbers)
        \cup {<<1, 2, 3, 4, 5>>, <<1, 2, -3, 4>>, <<0, 5, 10>>, <<0, -3, 10>>}

\* "string too long: {} chars", s.len()
FmtTooLong(n) ==
    Format(<<Lit("string too long: "), Pos, Lit(" chars")>>,
           [pos |-> <<I32(n)>>, named |-> NoNamed])

\* "found negative or zero number: {}", num
FmtNonPositive(n) ==
    Format(<<Lit("found negative or zero number: "), Pos>>,
           [pos |-> <<I32(n)>>, named |-> NoNamed])

\* "found negative number: {}", num
FmtNegative(n) ==
    Format(<<Lit("found negative number: "), Pos>>,
           [pos |-> <<I32(n)>>, named |-> NoNamed])

\* the errors converted one after another: eyre reports, one with a cause
BatchErrors == {<<EyreConfig>>, <<CustomFailed>>, <<EyreConfig, IoNotFound>>}

\* the results handed to wrap_err one after another
BatchResults ==
    {Ok(42), Err(<<IoNotFound>>), Err(<<CustomFailed, IoNotFound>>)}

\* the ways a unified error is built before it is boxed again
BuildPaths == {"Error::new", "from_boxed_error", "anyerr!", "context"}

RoundTripErrors ==
    {<<IoNotFound>>, <<CustomFailed, IoNotFound>>,
     <<EyreConfig, CustomFailed, IoNotFound>>}

\* the unified error of each path over e (a message for anyerr!)
build(path, e, m) ==
    CASE path = "Error::new" -> Error_new(e)
      [] path = "from_boxed_error" -> from_boxed_error(Box_new(e))
      [] path = "anyerr!" -> anyhow(Literal(m))
      [] path = "context" -> ext_context(e, m)

Calls ==
    {Call("divide", [a |-> a, b |-> b]) : a \in Args, b \in Args}
        \cup {Call("maybe_fail", [should_fail |-> f, v |-> v]) :
                    f \in BOOLEAN, v \in MacroInputs}
        \cup {Call("process", [value |-> n]) : n \in Args}
        \cup {Call("no_conflict", [macro |-> m, v |-> v]) :
                    m \in {"err", "anyerr"}, v \in MacroInputs}
        \cup {Call("fail_vs_err", [v |-> v]) : v \in MacroInputs}
        \cup {Call("outer", [depth |-> d, callee |-> c]) :
                    d \in 1..MaxLevels, c \in Callees}
        \cup {Call("validate_string", [s |-> t]) : t \in Strings}
        \cup {Call("renormalize",
                    [path |-> path, e |-> e, contexts |-> cs, rounds |-> n]) :
                    path \in BuildPaths, e \in RoundTripErrors,
                    cs \in {<<>>} \cup SeqsUpTo(CtxMsgs, MaxContexts),
                    n \in 1..MaxRounds}
        \cup {Call("chain_traversal", [err |-> v]) : v \in Nests}
        \cup {Call("mixed_error_types_chain", a) : a \in FromInputs}
        \cup {Call("multiple_conversions", [errors |-> es]) :
                    es \in SeqsUpTo(BatchErrors, MaxBatch)}
        \cup {Call("multiple_error_types", [results |-> rs]) :
                    rs \in SeqsUpTo(BatchResults, MaxBatch)}
        \cup {Call(fn, [numbers |-> ns]) :
                    fn \in {"all_positive", "find_positive"},
                    ns \in NumberLists}

FnInit ==
    /\ src = Ok(42)
    /\ msg = "Oops!"
    /\ r = [p \in Paths |-> Pending]
    /\ layers = <<>>
    /\ level = 0
    /\ lazyCalls = 0
    /\ evals = [p \in Paths |-> 0]
    /\ frame \in Calls

At(fn, pc) == frame.fn = fn /\ frame.pc = pc

\* the statement `label` ran and control moves on to `next`
Step(f, label, next) ==
    [f EXCEPT !.pc = next, !.trace = Append(@, label)]

\* the statement `label` ran and the function returned `result`
Finish(f, label, result) ==
    [f EXCEPT !.pc = "done", !.ret = result, !.trace = Append(@, label)]

\* a macro call in statement position
Run(f, label, eff, next) ==
    LET g == [f EXCEPT !.built = @ + eff.built]
    IN  IF eff.ctl = "return"
        THEN Finish(g, label, eff.val)
        ELSE Step(g, label, next)

\* divide: if b == 0 { err!("Cannot divide by zero") }
DivideZero ==
    /\ At("divide", "start")
    /\ frame.args.b = 0
    /\ LET eff == err_macro(Literal("Cannot divide by zero"))
       IN  frame' = Finish([frame EXCEPT !.built = @ + eff.built],
                           "err!", eff.val)
    /\ UNCHANGED convVars

\* divide: else { Ok(a / b) }
DivideOk ==
    /\ At("divide", "start")
    /\ frame.args.b # 0
    /\ frame' = Finish(frame, "Ok(a / b)",
                       Ok(i32_div(frame.args.a, frame.args.b)))
    /\ UNCHANGED convVars

\* maybe_fail: if should_fail { fail!(..); }
MaybeFailIf ==
    /\ At("maybe_fail", "start")
    /\ frame' = IF frame.args.should_fail
                THEN Run(frame, "fail!", fail_macro(frame.args.v), "tail")
                ELSE Step(frame, "if", "tail")
    /\ UNCHANGED convVars

\* maybe_fail: Ok("No error".to_string())
MaybeFailTail ==
    /\ At("maybe_fail", "tail")
    /\ frame' = Finish(frame, "Ok", Ok("No error"))
    /\ UNCHANGED convVars

\* process: ensure!(value != 0, "value cannot be zero");
ProcessEnsure ==
    /\ At("process", "start")
    /\ frame' = Run(frame, "ensure!",
                    ensure_macro(frame.args.value # 0,
                                 Literal("value cannot be zero")),
                    "div")
    /\ UNCHANGED convVars

\* process: let result = 100 / value;  (division by zero panics)
ProcessDiv ==
    /\ At("process", "div")
    /\ frame' = IF frame.args.value = 0
                THEN Step(frame, "100 / value", "panic")
                ELSE Step([frame EXCEPT !.locals.result =
                                i32_div(100, frame.args.value)],
                          "100 / value", "tail")
    /\ UNCHANGED convVars

\* process: Ok(result)
ProcessTail ==
    /\ At("process", "tail")
    /\ frame' = Finish(frame, "Ok", Ok(frame.locals.result))
    /\ UNCHANGED convVars

\* no_conflict: let err = "this is a variable";  (or let anyerr = ..)
NoConflictLet ==
    /\ At("no_conflict", "start")
    /\ frame' = Step([frame EXCEPT !.locals.variable = "this is a variable"],
                     "let", "macro")
    /\ UNCHANGED convVars

\* no_conflict: let error_result = err!(..);  (or anyerr!(..))
NoConflictMacro ==
    /\ At("no_conflict", "macro")
    /\ LET eff == IF frame.args.macro = "err"
                  THEN err_macro(frame.args.v)
                  ELSE anyerr_macro(frame.args.v)
       IN  frame' = Run([frame EXCEPT !.locals.value = eff.val],
                        "macro", eff, "end")
    /\ UNCHANGED convVars

\* no_conflict: the code after the macro, up to the end of the function
NoConflictEnd ==
    /\ At("no_conflict", "end")
    /\ frame' = Finish(frame, "end", Ok(Unit))
    /\ UNCHANGED convVars

\* with_fail(): fail!(..); Ok(42)
with_fail(v) ==
    LET eff == fail_macro(v) IN IF eff.ctl = "return" THEN eff.val ELSE Ok(42)

\* with_err(): return err!(..);
with_err(v) == err_macro(v).val

\* fail_vs_err: let result1 = with_fail();
VsWithFail ==
    /\ At("fail_vs_err", "start")
    /\ frame' = Step([frame EXCEPT !.locals.result1 = with_fail(frame.args.v)],
                     "with_fail", "with_err")
    /\ UNCHANGED convVars

\* fail_vs_err: let result2 = with_err();
VsWithErr ==
    /\ At("fail_vs_err", "with_err")
    /\ frame' = Step([frame EXCEPT !.locals.result2 = with_err(frame.args.v)],
                     "with_err", "anyerr")
    /\ UNCHANGED convVars

\* fail_vs_err: let error = anyerr!(..);
VsAnyerr ==
    /\ At("fail_vs_err", "anyerr")
    /\ LET eff == anyerr_macro(frame.args.v)
       IN  frame' = Run([frame EXCEPT !.locals.value = eff.val],
                        "anyerr!", eff, "end")
    /\ UNCHANGED convVars

\* fail_vs_err: end of the function
VsEnd ==
    /\ At("fail_vs_err", "end")
    /\ frame' = Finish(frame, "end", Ok(Unit))
    /\ UNCHANGED convVars

\* the level that has run its `?` returns to its caller, or to the test
Up(f) ==
    [f EXCEPT !.locals.lvl = @ + 1,
              !.pc = IF f.locals.lvl + 1 = f.args.depth
                     THEN "done" ELSE "question",
              !.ret = IF f.locals.lvl + 1 = f.args.depth
                      THEN f.locals.cur ELSE f.ret]

\* outer: the innermost function runs and returns its result
OuterCall ==
    /\ At("outer", "start")
    /\ LET res == callee_result(frame.args.callee)
       IN  frame' = Step([frame EXCEPT !.locals.callee = res,
                                       !.locals.cur = res],
                         "call", "question")
    /\ UNCHANGED convVars

\* outer: inner()?;  a failure is returned at once, a success goes on
OuterQuestion ==
    /\ At("outer", "question")
    /\ LET q == question(frame.locals.cur)
       IN  frame' = IF is_err(q)
                    THEN Up([frame EXCEPT !.locals.cur = q,
                                          !.trace = Append(@, "?")])
                    ELSE Step([frame EXCEPT !.locals.value = q.val],
                              "?", "tail")
    /\ UNCHANGED convVars

\* outer: Ok("outer success".to_string())
OuterTail ==
    /\ At("outer", "tail")
    /\ frame' = Up([frame EXCEPT !.locals.cur = Ok("outer success"),
                                 !.trace = Append(@, "tail")])
    /\ UNCHANGED convVars

\* validate_string: ensure!(!s.is_empty(), "string cannot be empty");
ValidateNotEmpty ==
    /\ At("validate_string", "start")
    /\ frame' = Run(frame, "ensure! not empty",
                    ensure_macro(Len(frame.args.s) # 0,
                                 Literal("string cannot be empty")),
                    "len")
    /\ UNCHANGED convVars

\* validate_string: ensure!(s.len() <= 10, "string too long: {} chars", ..);
ValidateLen ==
    /\ At("validate_string", "len")
    /\ frame' = Run(frame, "ensure! len",
                    ensure_macro(Len(frame.args.s) <= 10,
                                 FmtTooLong(Len(frame.args.s))),
                    "tail")
    /\ UNCHANGED convVars

\* validate_string: Ok(s.to_uppercase())
ValidateTail ==
    /\ At("validate_string", "tail")
    /\ frame' = Finish(frame, "Ok", Ok(to_uppercase(frame.args.s)))
    /\ UNCHANGED convVars

\* for &num in numbers: the next element is bound, or the loop ends
ForNext(f, body, after) ==
    IF f.locals.i < Len(f.args.numbers)
    THEN Step([f EXCEPT !.locals.i = @ + 1,
                        !.locals.num = f.args.numbers[f.locals.i + 1]],
              "for", body)
    ELSE Step(f, "for end", after)

\* all_positive: let mut sum = 0; for &num in numbers {
AllPositiveFor ==
    /\ frame.fn = "all_positive"
    /\ frame.pc \in {"start", "for"}
    /\ frame' = ForNext(frame, "ensure", "tail")
    /\ UNCHANGED convVars

\* all_positive: ensure!(num > 0, "found negative or zero number: {}", num);
AllPositiveEnsure ==
    /\ At("all_positive", "ensure")
    /\ frame' = Run(frame, "ensure!",
                    ensure_macro(frame.locals.num > 0,
                                 FmtNonPositive(frame.locals.num)),
                    "add")
    /\ UNCHANGED convVars

\* all_positive: sum += num;
AllPositiveAdd ==
    /\ At("all_positive", "add")
    /\ frame' = Step([frame EXCEPT !.locals.sum = @ + frame.locals.num],
                     "sum +=", "for")
    /\ UNCHANGED convVars

\* all_positive: Ok(sum)
AllPositiveTail ==
    /\ At("all_positive", "tail")
    /\ frame' = Finish(frame, "Ok", Ok(frame.locals.sum))
    /\ UNCHANGED convVars

\* find_positive: for &num in numbers {
FindPositiveFor ==
    /\ frame.fn = "find_positive"
    /\ frame.pc \in {"start", "for"}
    /\ frame' = ForNext(frame, "negative", "end")
    /\ UNCHANGED convVars

\* find_positive: if num < 0 { fail!("found negative number: {}", num); }
FindPositiveNegative ==
    /\ At("find_positive", "negative")
    /\ frame' = IF frame.locals.num < 0
                THEN Run(frame, "fail!",
                         fail_macro(FmtNegative(frame.locals.num)),
                         "positive")
                ELSE Step(frame, "if num < 0", "positive")
    /\ UNCHANGED convVars

\* find_positive: if num > 0 { return Ok(num); }
FindPositivePositive ==
    /\ At("find_positive", "positive")
    /\ frame' = IF frame.locals.num > 0
                THEN Finish(frame, "return Ok", Ok(frame.locals.num))
                ELSE Step(frame, "if num > 0", "for")
    /\ UNCHANGED convVars

\* find_positive: fail!("no positive number found");  (nothing follows it)
FindPositiveEnd ==
    /\ At("find_positive", "end")
    /\ frame' = Run(frame, "fail! none",
                    fail_macro(Literal("no positive number found")),
                    "fell through")
    /\ UNCHANGED convVars

\* a map step that hands out the error of the first conversion again
MultipleConversionsMapCached ==
    /\ At("multiple_conversions", "start")
    /\ frame.locals.i < Len(frame.args.errors)
    /\ LET e == frame.args.errors[frame.locals.i + 1]
           boxed == Box_new(e)
           out == IF frame.locals.converted # <<>>
                  THEN frame.locals.converted[1]
                  ELSE from_boxed_error(boxed)
       IN  frame' = Step([frame EXCEPT !.locals.i = @ + 1,
                                       !.locals.converted = Append(@, out)],
                         "map", "start")
    /\ UNCHANGED convVars

\* multiple_conversions: errors.into_iter().map(|e| { let boxed = e.into();
\* from_boxed_error(boxed) }), one element
MultipleConversionsMap ==
    /\ At("multiple_conversions", "start")
    /\ frame.locals.i < Len(frame.args.errors)
    /\ LET e == frame.args.errors[frame.locals.i + 1]
           boxed == Box_new(e)
       IN  frame' = Step([frame EXCEPT !.locals.i = @ + 1,
                                       !.locals.converted =
                                            Append(@, from_boxed_error(boxed))],
                         "map", "start")
    /\ UNCHANGED convVars

\* multiple_conversions: .collect()
MultipleConversionsCollect ==
    /\ At("multiple_conversions", "start")
    /\ frame.locals.i = Len(frame.args.errors)
    /\ frame' = Finish(frame, "collect", frame.locals.converted)
    /\ UNCHANGED convVars

\* multiple_error_types: let result_k: Result<i32> = wrap_err(operation_k());
MultipleErrorTypesWrap ==
    /\ At("multiple_error_types", "start")
    /\ frame.locals.i < Len(frame.args.results)
    /\ LET result == frame.args.results[frame.locals.i + 1]
       IN  frame' = Step([frame EXCEPT !.locals.i = @ + 1,
                                       !.locals.converted =
                                            Append(@, wrap_err(result))],
                         "wrap_err", "start")
    /\ UNCHANGED convVars

\* multiple_error_types: end of the function
MultipleErrorTypesEnd ==
    /\ At("multiple_error_types", "start")
    /\ frame.locals.i = Len(frame.args.results)
    /\ frame' = Finish(frame, "end", frame.locals.converted)
    /\ UNCHANGED convVars

\* chain_traversal: let mut count = 1; let mut current = err;
TraversalLet ==
    /\ At("chain_traversal", "start")
    /\ frame' = Step([frame EXCEPT !.locals.count = 1,
                                   !.locals.cur = frame.args.err],
                     "let", "while")
    /\ UNCHANGED convVars

\* chain_traversal: while let Some(source) = current.source() {
\* count += 1; current = source; }
TraversalWhile ==
    /\ At("chain_traversal", "while")
    /\ frame' = IF source(frame.locals.cur) # <<>>
                THEN Step([frame EXCEPT !.locals.count = @ + 1,
                                        !.locals.cur = source(@)],
                          "while", "while")
                ELSE Finish(frame, "end", frame.locals.count)
    /\ UNCHANGED convVars

\* mixed_error_types_chain: operation() returns Err(io_err.into())
MixedOperation ==
    /\ At("mixed_error_types_chain", "start")
    /\ frame' = Step([frame EXCEPT !.locals.result =
                        Err(derive_From(frame.args.variant, frame.args.e))],
                     "operation", "map_err")
    /\ UNCHANGED convVars

\* mixed_error_types_chain: operation().map_err(|e| e.into())
MixedMapErr ==
    /\ At("mixed_error_types_chain", "map_err")
    /\ frame' = Step([frame EXCEPT !.locals.result = map_err(@, Error_from)],
                     "map_err", "count")
    /\ UNCHANGED convVars

\* mixed_error_types_chain: result.unwrap_err().chain().count()
MixedCount ==
    /\ At("mixed_error_types_chain", "count")
    /\ frame' = Finish(frame, "count", chain_count(frame.locals.result.err))
    /\ UNCHANGED convVars

\* renormalize: the unified error x is built
RenormalizeBuild ==
    /\ At("renormalize", "start")
    /\ LET x == build(frame.args.path, frame.args.e, "Oops!")
       IN  frame' = Step([frame EXCEPT !.locals.cur = x, !.locals.value = x],
                         "build", "context")
    /\ UNCHANGED convVars

\* renormalize: x = x.context(m), for each of the context messages
RenormalizeContext ==
    /\ At("renormalize", "context")
    /\ frame.locals.i < Len(frame.args.contexts)
    /\ LET x == Error_context(frame.locals.cur,
                              frame.args.contexts[frame.locals.i + 1])
       IN  frame' = Step([frame EXCEPT !.locals.cur = x, !.locals.value = x,
                                       !.locals.i = @ + 1],
                         "context", "context")
    /\ UNCHANGED convVars

\* renormalize: let boxed: Box<dyn Error + Send + Sync> = x.into();
RenormalizeIntoBoxed ==
    /\ frame.fn = "renormalize"
    /\ \/ frame.pc = "context" /\ frame.locals.i = Len(frame.args.contexts)
       \/ frame.pc = "into"
    /\ frame' = Step([frame EXCEPT !.locals.result =
                                        Error_into_boxed(frame.locals.cur)],
                     "into", "from_boxed_error")
    /\ UNCHANGED convVars

\* renormalize: let x = from_boxed_error(boxed);
RenormalizeFromBoxed ==
    /\ At("renormalize", "from_boxed_error")
    /\ LET x == from_boxed_error(frame.locals.result)
           f == [frame EXCEPT !.locals.cur = x, !.locals.count = @ + 1]
       IN  frame' = IF f.locals.count = frame.args.rounds
                    THEN Finish(f, "from_boxed_error", x)
                    ELSE Step(f, "from_boxed_error", "into")
    /\ UNCHANGED convVars

FnNext ==
    \/ DivideZero
    \/ DivideOk
    \/ MaybeFailIf
    \/ MaybeFailTail
    \/ ProcessEnsure
    \/ ProcessDiv
    \/ ProcessTail
    \/ NoConflictLet
    \/ NoConflictMacro
    \/ NoConflictEnd
    \/ VsWithFail
    \/ VsWithErr
    \/ VsAnyerr
    \/ VsEnd
    \/ OuterCall
    \/ OuterQuestion
    \/ OuterTail
    \/ ValidateNotEmpty
    \/ ValidateLen
    \/ ValidateTail
    \/ AllPositiveFor
    \/ AllPositiveEnsure
    \/ AllPositiveAdd
    \/ AllPositiveTail
    \/ FindPositiveFor
    \/ FindPositiveNegative
    \/ FindPositivePositive
    \/ FindPositiveEnd
    \/ MultipleConversionsMap
    \/ MultipleConversionsCollect
    \/ MultipleErrorTypesWrap
    \/ MultipleErrorTypesEnd
    \/ TraversalLet
    \/ TraversalWhile
    \/ MixedOperation
    \/ MixedMapErr
    \/ MixedCount
    \/ RenormalizeBuild
    \/ RenormalizeContext
    \/ RenormalizeIntoBoxed
    \/ RenormalizeFromBoxed

FnSpec == FnInit /\ [][FnNext]_vars

\* ----------------------------------------------------------- properties
Messages(nodes) == [i \in 1..Len(nodes) |-> nodes[i].msg]

Last(q) == q[Len(q)]

Reverse(q) == [i \in 1..Len(q) |-> q[Len(q) + 1 - i]]

\* number of source() links below e
RECURSIVE SourceLinks(_)
SourceLinks(e) == IF source(e) = <<>> THEN 0 ELSE 1 + SourceLinks(source(e))

\* a occurs in b as a subsequence: same elements, same relative order
RECURSIVE IsSubseq(_, _)
IsSubseq(a, b) ==
    IF a = <<>> THEN TRUE
    ELSE IF b = <<>> THEN FALSE
    ELSE IF Head(a) = Head(b) THEN IsSubseq(Tail(a), Tail(b))
    ELSE IsSubseq(a, Tail(b))

Built(p) == r[p].tag # "Pending"

\* the chain messages of the failure of path p before any context layer
Original(p) == IF p = "err" THEN <<msg>> ELSE Messages(Walk(src.err))

\* C1: wrap_err(Err(e)) is a failure whose to_string() is exactly
\* e.to_string().
C1_MessagePreserved ==
    (Built("wrap_err") /\ is_err(src) /\ layers = <<>>) =>
        /\ is_err(r["wrap_err"])
        /\ to_string(r["wrap_err"].err) = Display(src.err)

C1_Witness ==
    /\ Built("wrap_err")
    /\ layers = <<>>
    /\ src = Err(<<CustomFailed>>)
    /\ to_string(r["wrap_err"].err) = "CustomError: operation failed"

\* C2: wrap_err(Ok(v)) is Ok(v) with v unchanged, and wrap_err never flips
\* success into failure or failure into success.
C2_SuccessPassThrough ==
    Built("wrap_err") =>
        /\ is_ok(r["wrap_err"]) = is_ok(src)
        /\ is_ok(src) => r["wrap_err"] = Ok(src.val)

C2_Witness ==
    /\ Built("wrap_err")
    /\ src = Ok(42)
    /\ r["wrap_err"] = Ok(42)

\* C3: converting e directly and boxing e then calling from_boxed_error give
\* errors with the same to_string() and the same chain() message sequence.
C3_BoxedEquivalence ==
    (Built("wrap_err") /\ Built("from_boxed") /\ is_err(src)
        /\ layers = <<>>) =>
        /\ to_string(r["wrap_err"].err) = to_string(r["from_boxed"].err)
        /\ chain_messages(r["wrap_err"].err)
                = chain_messages(r["from_boxed"].err)

C3_Witness ==
    /\ Built("wrap_err")
    /\ Built("from_boxed")
    /\ layers = <<>>
    /\ src = Err(<<CustomFailed, IoNotFound>>)
    /\ chain_messages(r["from_boxed"].err)
            = <<"CustomError: operation failed", "file not found">>

\* C4: from_boxed_error(b).to_string() is b.to_string(), and chain() yields
\* the messages of b followed by those of its source() links, in order.
C4_BoxedWrappedDirectly ==
    (Built("from_boxed") /\ is_err(src) /\ layers = <<>>) =>
        LET b == Box_new(src.err)
        IN  /\ to_string(r["from_boxed"].err) = BoxDisplay(b)
            /\ chain_messages(r["from_boxed"].err)
                    = <<BoxDisplay(b)>> \o Messages(Walk(BoxSource(b)))

C4_Witness ==
    /\ Built("from_boxed")
    /\ layers = <<>>
    /\ src = Err(<<EyreConfig, CustomFailed, IoNotFound>>)
    /\ Len(chain_messages(r["from_boxed"].err)) = 3

\* C5: a boxed foreign error whose walk through source() has N entries gives
\* from_boxed_error(b).chain().count() = N.
C5_BoxedDepthPreserved ==
    (Built("from_boxed") /\ is_err(src) /\ layers = <<>>) =>
        chain_count(r["from_boxed"].err) = Len(Walk(src.err))

C5_Witness ==
    /\ Built("from_boxed")
    /\ layers = <<>>
    /\ src = Err(<<EyreConfig, IoNotFound>>)
    /\ chain_count(r["from_boxed"].err) = 2

\* C6: converting a concrete error with k source() links by wrap_err,
\* anyerr!/err! or `?`/into() gives chain().count() = 1 + k.
C6_ChainLengthPreserved ==
    \A p \in {"wrap_err", "anyerr", "std"} :
        (Built(p) /\ is_err(src) /\ layers = <<>>) =>
            chain_count(r[p].err) = 1 + SourceLinks(src.err)

C6_Witness ==
    /\ Built("wrap_err")
    /\ Built("anyerr")
    /\ Built("std")
    /\ layers = <<>>
    /\ is_err(src)
    /\ SourceLinks(src.err) = 2
    /\ chain_count(r["wrap_err"].err) = 3

\* the chain length of the failing result of path p before a context step
CountBefore(p) ==
    IF Built(p) THEN chain_count(r[p].err) ELSE Len(Walk(src.err))

\* C7: context(m) on a failing result, however it was built, increases
\* chain().count() by exactly 1 and makes m the head message.
C7_ContextAddsOne ==
    [][(layers' # layers) =>
        \A p \in Paths :
            is_err(r'[p]) =>
                /\ chain_count(r'[p].err) = CountBefore(p) + 1
                /\ to_string(r'[p].err) = Last(layers')
                /\ chain_messages(r'[p].err)[1] = Last(layers')]_vars

C7_Witness ==
    /\ Len(layers) = 2
    /\ \A p \in Paths : is_err(r[p])
    /\ chain_count(r["err"].err) = 3
    /\ chain_count(r["from_boxed"].err) = 2 + Len(Walk(src.err))
    /\ to_string(r["wrap_err"].err) = Last(layers)

\* C8: after layering m1..mk on an error whose chain is c, chain() yields
\* mk..m1 followed by c; two nested levels of context over a not-found io
\* error give a chain of at least 3 entries.
C8_ContextPrepends ==
    /\ \A p \in Paths :
            is_err(r[p]) =>
                chain_messages(r[p].err) = Reverse(layers) \o Original(p)
    /\ (src = Err(<<IoNotFound>>) /\ Len(layers) >= 2 /\ level >= 2) =>
            chain_count(r["std"].err) >= 3

C8_Witness ==
    /\ src = Err(<<IoNotFound>>)
    /\ level = 2
    /\ layers = <<"level2 context", "level1 context">>
    /\ chain_messages(r["std"].err)
            = <<"level1 context", "level2 context", "file not found">>

\* C9: after any number of context layers every message of the original
\* chain is still in the chain, in the original relative order.
C9_OriginalChainKept ==
    \A p \in Paths :
        is_err(r[p]) => IsSubseq(Original(p), chain_messages(r[p].err))

C9_Witness ==
    /\ Len(layers) = 2
    /\ src = Err(<<CustomFailed, EyreConfig, IoNotFound>>)
    /\ is_err(r["anyerr"])
    /\ Len(chain_messages(r["anyerr"].err)) = 5

\* C10 as stated: the from_boxed_error error and the directly wrapped error
\* agree on to_string(), chain(), context layering, propagation and on the
\* downcast to the concrete originating type.
C10_Indistinguishable ==
    (Built("wrap_err") /\ Built("from_boxed") /\ is_err(src)) =>
        /\ is_err(r["wrap_err"]) /\ is_err(r["from_boxed"])
        /\ to_string(r["wrap_err"].err) = to_string(r["from_boxed"].err)
        /\ chain_messages(r["wrap_err"].err)
                = chain_messages(r["from_boxed"].err)
        /\ downcast_ref(r["wrap_err"].err, TypeOf(src.err))
                = downcast_ref(r["from_boxed"].err, TypeOf(src.err))

\* C10 amended: the two errors agree on to_string() and chain() after any
\* context layering and propagation; the downcast to the concrete type
\* succeeds on the directly wrapped error only, the from_boxed_error error
\* downcasts to the boxed dyn error.
C10_IndistinguishableButDowncast ==
    (Built("wrap_err") /\ Built("from_boxed") /\ is_err(src)) =>
        /\ is_err(r["wrap_err"]) /\ is_err(r["from_boxed"])
        /\ to_string(r["wrap_err"].err) = to_string(r["from_boxed"].err)
        /\ chain_messages(r["wrap_err"].err)
                = chain_messages(r["from_boxed"].err)
        /\ downcast_ref(r["wrap_err"].err, TypeOf(src.err))
        /\ ~downcast_ref(r["from_boxed"].err, TypeOf(src.err))
        /\ downcast_ref(r["from_boxed"].err, "Box<dyn Error>")
        /\ ~downcast_ref(r["wrap_err"].err, "Box<dyn Error>")

C10_Witness ==
    /\ src = Err(<<CustomFailed, IoNotFound>>)
    /\ Len(layers) = 1
    /\ level = 1
    /\ is_err(r["from_boxed"])
    /\ downcast_ref(r["wrap_err"].err, "CustomError")
    /\ ~downcast_ref(r["from_boxed"].err, "CustomError")
    /\ chain_messages(r["wrap_err"].err)
            = chain_messages(r["from_boxed"].err)

\* C11: wrap_err(r) and r.map_err(Error::new) have the same success value or
\* failures with the same message and chain, and the failure holds the
\* concrete error itself, not a box.
C11_WrapErrIsMapErrNew ==
    (Built("wrap_err") /\ Built("map_err")) =>
        /\ is_ok(r["wrap_err"]) = is_ok(r["map_err"])
        /\ is_ok(r["wrap_err"]) => r["wrap_err"].val = r["map_err"].val
        /\ is_err(r["wrap_err"]) =>
            /\ to_string(r["wrap_err"].err) = to_string(r["map_err"].err)
            /\ chain_messages(r["wrap_err"].err)
                    = chain_messages(r["map_err"].err)
            /\ chain(r["wrap_err"].err)[Len(layers) + 1].ty = TypeOf(src.err)
            /\ downcast_ref(r["wrap_err"].err, TypeOf(src.err))
            /\ ~downcast_ref(r["wrap_err"].err, "Box<dyn Error>")

C11_Witness ==
    /\ Built("wrap_err")
    /\ Built("map_err")
    /\ src = Err(<<IoNotFound>>)
    /\ layers = <<>>
    /\ r["wrap_err"] = r["map_err"]
    /\ chain(r["wrap_err"].err) = <<IoNotFound>>

\* the result of path p is a failure, also while p is still src itself
Failing(p) == IF Built(p) THEN is_err(r[p]) ELSE is_err(src)

ChainBefore(p) ==
    IF Built(p) THEN chain_messages(r[p].err) ELSE Messages(Walk(src.err))

\* C17: context / with_context leave a success unchanged without running the
\* with_context closure; on a failure the closure runs exactly once, its
\* result becomes the head message and the previous chain is kept below it.
C17_ContextOnlyOnFailureLazy ==
    [][(layers' # layers) =>
        \A p \in Paths :
            IF Failing(p)
            THEN /\ is_err(r'[p])
                 /\ evals'[p] = evals[p]
                        + (IF lazyCalls' # lazyCalls THEN 1 ELSE 0)
                 /\ to_string(r'[p].err) = Last(layers')
                 /\ Tail(chain_messages(r'[p].err)) = ChainBefore(p)
            ELSE /\ r'[p] = Ok(src.val)
                 /\ evals'[p] = 0]_vars

C17_Witness ==
    /\ src = Ok(42)
    /\ lazyCalls = 2
    /\ \A p \in Paths \ {"err"} : r[p] = Ok(42) /\ evals[p] = 0
    /\ evals["err"] = 2

\* C19: Display of the final error is exactly its head message, the last
\* context message once a context was layered; the debug format shows that
\* message and then every further chain entry.
C19_DisplayAndDebug ==
    \A p \in Paths :
        is_err(r[p]) =>
            LET d == debug_format(r[p].err)
                all == chain_messages(r[p].err)
            IN  /\ to_string(r[p].err) = Head(Reverse(layers) \o Original(p))
                /\ layers # <<>> => to_string(r[p].err) = Last(layers)
                /\ d.message = to_string(r[p].err)
                /\ <<d.message>>
                        \o [i \in 1..Len(d.caused_by) |-> d.caused_by[i].text]
                        = all

C19_Witness ==
    /\ src = Err(<<IoNotFound>>)
    /\ layers = <<"level2 context", "level1 context">>
    /\ to_string(r["std"].err) = "level1 context"
    /\ debug_format(r["std"].err).caused_by
            = <<[index |-> 0, text |-> "level2 context"],
                [index |-> 1, text |-> "file not found"]>>

\* C20: chain() ends after exactly 1 + (number of source links) entries, the
\* first being the error's own head message (the latest context) and the
\* last the innermost root cause.
C20_ChainOrderFinite ==
    \A p \in Paths :
        is_err(r[p]) =>
            LET c == chain(r[p].err)
            IN  /\ Len(c) = 1 + SourceLinks(error(r[p].err))
                /\ Len(c) = Len(layers) + Len(Original(p))
                /\ c[1].msg = to_string(r[p].err)
                /\ layers # <<>> => c[1].msg = Last(layers)
                /\ c[Len(c)].msg = Last(Original(p))

C20_Witness ==
    /\ src = Err(<<CustomFailed, IoNotFound>>)
    /\ layers = <<"level2 context", "level1 context">>
    /\ Len(chain(r["from_boxed"].err)) = 4
    /\ chain(r["from_boxed"].err)[1].msg = "level1 context"
    /\ chain(r["from_boxed"].err)[4].msg = "file not found"

\* the message a macro argument stands for
MessageOf(v) ==
    CASE v.kind = "literal" -> v.text
      [] v.kind = "format" -> format(v.pieces, v.args)
      [] v.kind = "error" -> Display(v.value)

Returned(fn) == frame.fn = fn /\ frame.pc = "done"

\* C12: when fail!(args) is reached the function returns at once with a
\* failure whose to_string() is the formatted message and nothing after it
\* runs; when it is not reached the function returns its success value.
C12_FailReturnsEarly ==
    frame.fn = "maybe_fail" =>
        IF frame.args.should_fail
        THEN /\ frame.pc \in {"start", "done"}
             /\ frame.pc = "done" =>
                    /\ is_err(frame.ret)
                    /\ to_string(frame.ret.err) = MessageOf(frame.args.v)
                    /\ frame.args.v = FmtUser("Alice", 30) =>
                            to_string(frame.ret.err)
                                = "User Alice is 30 years old"
                    /\ frame.trace = <<"fail!">>
        ELSE frame.pc = "done" =>
                /\ frame.ret = Ok("No error")
                /\ frame.trace = <<"if", "Ok">>
                /\ frame.built = 0

C12_Witness ==
    /\ Returned("maybe_fail")
    /\ frame.args.should_fail
    /\ frame.args.v = FmtValue(-5)
    /\ is_err(frame.ret)
    /\ to_string(frame.ret.err) = "error with value: -5"
    /\ frame.trace = <<"fail!">>

\* C13: with a true condition ensure! builds no error and the following code
\* runs; with a false one the function returns at once with the message and
\* nothing after it runs: 100 / value is never evaluated for value 0.
C13_EnsureGuards ==
    frame.fn = "process" =>
        /\ frame.pc # "panic"
        /\ frame.pc = "done" =>
            IF frame.args.value # 0
            THEN /\ frame.built = 0
                 /\ frame.trace = <<"ensure!", "100 / value", "Ok">>
                 /\ is_ok(frame.ret)
                 /\ frame.args.value = 10 => frame.ret = Ok(10)
            ELSE /\ is_err(frame.ret)
                 /\ to_string(frame.ret.err) = "value cannot be zero"
                 /\ frame.trace = <<"ensure!">>

C13_Witness ==
    /\ Returned("process")
    /\ frame.args.value = 0
    /\ is_err(frame.ret)
    /\ frame.trace = <<"ensure!">>
    /\ frame.built = 1

\* C14: anyerr!(args) is an Error value and err!(args) an Err(Error) value;
\* evaluating them does not return from the function, which fails only if
\* the value is returned, and leaves the local named err / anyerr unchanged.
C14_ErrAnyerrAreExpressions ==
    /\ (frame.fn = "no_conflict" /\ frame.pc \in {"end", "done"}) =>
            /\ frame.locals.variable = "this is a variable"
            /\ frame.ret = IF frame.pc = "done" THEN Ok(Unit) ELSE Pending
            /\ frame.built = 1
            /\ IF frame.args.macro = "err"
               THEN /\ is_err(frame.locals.value)
                    /\ to_string(frame.locals.value.err)
                            = MessageOf(frame.args.v)
               ELSE to_string(frame.locals.value) = MessageOf(frame.args.v)
    /\ Returned("no_conflict") => frame.trace = <<"let", "macro", "end">>
    /\ (frame.fn = "fail_vs_err" /\ frame.pc \in {"anyerr", "end", "done"}) =>
            /\ is_err(frame.locals.result2)
            /\ to_string(frame.locals.result2.err) = MessageOf(frame.args.v)

C14_Witness ==
    /\ Returned("no_conflict")
    /\ frame.args.macro = "err"
    /\ frame.args.v = Literal("Oops!")
    /\ frame.ret = Ok(Unit)
    /\ frame.locals.variable = "this is a variable"
    /\ to_string(frame.locals.value.err) = "Oops!"

\* C15: for the same argument v the failures of fail!(v) and err!(v) and the
\* error of anyerr!(v), which is anyhow!(v), have the same to_string().
C15_MacrosAgree ==
    Returned("fail_vs_err") =>
        /\ is_err(frame.locals.result1)
        /\ is_err(frame.locals.result2)
        /\ to_string(frame.locals.result1.err)
                = to_string(frame.locals.result2.err)
        /\ to_string(frame.locals.result2.err) = to_string(frame.locals.value)
        /\ frame.locals.value = anyhow(frame.args.v)

C15_Witness ==
    /\ Returned("fail_vs_err")
    /\ frame.args.v = ErrorValue(<<CustomFailed, IoNotFound>>)
    /\ to_string(frame.locals.result1.err) = "CustomError: operation failed"
    /\ to_string(frame.locals.value) = "CustomError: operation failed"

\* C16: divide(a, b) fails with exactly "Cannot divide by zero" when b = 0
\* and returns the quotient a / b otherwise; (10, 0) fails, (10, 2) gives 5.
C16_Divide ==
    Returned("divide") =>
        LET a == frame.args.a
            b == frame.args.b
        IN  IF b = 0
            THEN /\ is_err(frame.ret)
                 /\ to_string(frame.ret.err) = "Cannot divide by zero"
            ELSE /\ is_ok(frame.ret)
                 /\ LET rem == a - frame.ret.val * b
                    IN  /\ (IF rem < 0 THEN -rem ELSE rem)
                                < (IF b < 0 THEN -b ELSE b)
                        /\ rem = 0 \/ (rem < 0) = (a < 0)
                 /\ (a = 10 /\ b = 2) => frame.ret = Ok(5)

C16_Witness ==
    /\ Returned("divide")
    /\ frame.args = [a |-> 10, b |-> 2]
    /\ frame.ret = Ok(5)

\* C18: a function that propagates a failure with `?` returns at that point
\* and its caller sees an error with the same to_string() and chain() as the
\* callee produced, at every depth; a success lets the function go on.
C18_PropagationUnchanged ==
    (frame.fn = "outer" /\ frame.pc # "start") =>
        IF is_err(frame.locals.callee)
        THEN /\ is_err(frame.locals.cur)
             /\ to_string(frame.locals.cur.err)
                    = to_string(frame.locals.callee.err)
             /\ chain(frame.locals.cur.err) = chain(frame.locals.callee.err)
             /\ frame.pc # "tail"
             /\ frame.trace
                    = <<"call">> \o [i \in 1..frame.locals.lvl |-> "?"]
             /\ frame.pc = "done" =>
                    /\ frame.ret = frame.locals.cur
                    /\ frame.locals.lvl = frame.args.depth
        ELSE frame.pc = "done" => frame.ret = Ok("outer success")

C18_Witness ==
    /\ Returned("outer")
    /\ frame.args.depth = 2
    /\ frame.args.callee = [kind |-> "boxed", e |-> <<EyreConfig, IoNotFound>>]
    /\ chain_messages(frame.ret.err)
            = <<"failed to read config", "file not found">>
    /\ frame.trace = <<"call", "?", "?">>

\* the macro argument is a literal or a format string with arguments
MessageOnly(v) == v.kind \in {"literal", "format"}

\* err has no source: its chain is the single message m
IsMessageError(err, m) ==
    /\ chain_count(err) = 1
    /\ chain_messages(err) = <<m>>
    /\ SourceLinks(error(err)) = 0
    /\ to_string(err) = m

\* C21: an error built by anyerr!/err!/fail!/ensure! from a literal or a
\* format string has chain().count() = 1 and its only entry is the message
\* with every positional and named argument interpolated.
C21_MessageOnlyNoSource ==
    /\ (Returned("maybe_fail") /\ frame.args.should_fail
            /\ MessageOnly(frame.args.v)) =>
            /\ is_err(frame.ret)
            /\ IsMessageError(frame.ret.err, MessageOf(frame.args.v))
            /\ frame.args.v = FmtValues(10, 20) =>
                    chain_messages(frame.ret.err) = <<"values: 10 and 20">>
    /\ (Returned("no_conflict") /\ MessageOnly(frame.args.v)) =>
            LET e == IF frame.args.macro = "err"
                     THEN frame.locals.value.err ELSE frame.locals.value
            IN  /\ IsMessageError(e, MessageOf(frame.args.v))
                /\ frame.args.v = FmtUser("Alice", 30) =>
                        chain_messages(e) = <<"User Alice is 30 years old">>
                /\ frame.args.v = FmtValue(42) =>
                        chain_messages(e) = <<"error with value: 42">>
    /\ (Returned("process") /\ frame.args.value = 0) =>
            /\ is_err(frame.ret)
            /\ IsMessageError(frame.ret.err, "value cannot be zero")
    /\ (Returned("all_positive") /\ frame.built > 0) =>
            /\ is_err(frame.ret)
            /\ IsMessageError(frame.ret.err,
                              "found negative or zero number: "
                                    \o ToString(frame.locals.num))

C21_Witness ==
    /\ Returned("no_conflict")
    /\ frame.args.macro = "err"
    /\ frame.args.v = FmtUser("Alice", 30)
    /\ chain_count(frame.locals.value.err) = 1
    /\ chain_messages(frame.locals.value.err)
            = <<"User Alice is 30 years old">>

\* the index of the first element of ns that satisfies Bad, 0 if none does
FirstWhere(ns, Bad(_)) ==
    IF \E k \in 1..Len(ns) : Bad(ns[k])
    THEN CHOOSE k \in 1..Len(ns) :
            Bad(ns[k]) /\ \A j \in 1..(k - 1) : ~Bad(ns[j])
    ELSE 0

RECURSIVE SumOf(_)
SumOf(ns) == IF ns = <<>> THEN 0 ELSE Head(ns) + SumOf(Tail(ns))

\* the number of times the statement `label` ran
Ran(label) == Cardinality({k \in 1..Len(frame.trace) : frame.trace[k] = label})

\* C23: with several ensure!/fail! guards in sequence or in a loop the
\* function returns the failure of the first guard that triggers; the
\* guards, iterations and accumulations after it do not run; when no guard
\* triggers the function returns its success value.
C23_FirstFailingGuardWins ==
    /\ Returned("validate_string") =>
            LET s == frame.args.s
            IN  IF Len(s) = 0
                THEN /\ is_err(frame.ret)
                     /\ to_string(frame.ret.err) = "string cannot be empty"
                     /\ frame.trace = <<"ensure! not empty">>
                ELSE IF Len(s) > 10
                THEN /\ is_err(frame.ret)
                     /\ to_string(frame.ret.err)
                            = "string too long: " \o ToString(Len(s))
                                    \o " chars"
                     /\ frame.trace = <<"ensure! not empty", "ensure! len">>
                ELSE /\ is_ok(frame.ret)
                     /\ Len(frame.ret.val) = Len(s)
                     /\ s = Hello =>
                            frame.ret.val = <<"H", "E", "L", "L", "O">>
                     /\ frame.built = 0
    /\ Returned("all_positive") =>
            LET ns == frame.args.numbers
                k == FirstWhere(ns, LAMBDA n : n <= 0)
            IN  IF k > 0
                THEN /\ is_err(frame.ret)
                     /\ to_string(frame.ret.err)
                            = "found negative or zero number: "
                                    \o ToString(ns[k])
                     /\ ns = <<1, 2, -3, 4>> =>
                            to_string(frame.ret.err)
                                = "found negative or zero number: -3"
                     /\ Ran("for") = k
                     /\ Ran("ensure!") = k
                     /\ Ran("sum +=") = k - 1
                     /\ Ran("Ok") = 0
                     /\ Last(frame.trace) = "ensure!"
                     /\ frame.built = 1
                ELSE /\ frame.ret = Ok(SumOf(ns))
                     /\ Ran("sum +=") = Len(ns)
                     /\ frame.built = 0
    /\ Returned("find_positive") =>
            LET ns == frame.args.numbers
                k == FirstWhere(ns, LAMBDA n : n # 0)
            IN  /\ Ran("for") = (IF k > 0 THEN k ELSE Len(ns))
                /\ frame.built = (IF k > 0 /\ ns[k] > 0 THEN 0 ELSE 1)
                /\ IF k = 0
                   THEN /\ is_err(frame.ret)
                        /\ to_string(frame.ret.err)
                                = "no positive number found"
                   ELSE IF ns[k] < 0
                   THEN /\ is_err(frame.ret)
                        /\ to_string(frame.ret.err)
                                = "found negative number: "
                                        \o ToString(ns[k])
                        /\ ns = <<0, -3, 10>> =>
                                to_string(frame.ret.err)
                                    = "found negative number: -3"
                        /\ Last(frame.trace) = "fail!"
                   ELSE frame.ret = Ok(ns[k])
    /\ frame.pc # "fell through"

C23_Witness ==
    /\ Returned("all_positive")
    /\ frame.args.numbers = <<1, 2, -3, 4>>
    /\ is_err(frame.ret)
    /\ to_string(frame.ret.err) = "found negative or zero number: -3"
    /\ frame.locals.sum = 3
    /\ frame.locals.i = 3

C24_DerivedSourceChain ==
    /\ Returned("chain_traversal") =>
            LET v == frame.args.err
            IN  /\ frame.ret = Len(v)
                /\ frame.ret = 1 + Ran("while")
                /\ v = InnerNest(3, "deepest error") => frame.ret = 3
                /\ v = LevelNest(1, 4, IoDeepest) => frame.ret = 5
                /\ \A n \in 0..MaxNest :
                        v = LevelNest(1, n, IoDeepest) => frame.ret = n + 1
                /\ Last(Messages(v)) = Display(frame.locals.cur)
    /\ (frame.fn = "mixed_error_types_chain"
            /\ frame.pc \in {"count", "done"}) =>
            LET err == frame.locals.result.err
                variant == frame.args.variant
            IN  /\ chain_count(err) = 2
                /\ to_string(err) = variant.error[1].text
                /\ to_string(err) # Display(frame.args.e)
                /\ chain_messages(err)
                        = <<variant.error[1].text, Display(frame.args.e)>>
                /\ variant = AppError_Io => to_string(err) = "io error"
                /\ frame.pc = "done" => frame.ret = 2

C24_Witness ==
    /\ Returned("mixed_error_types_chain")
    /\ frame.args = [variant |-> AppError_Io, e |-> <<IoConfig>>]
    /\ frame.ret = 2
    /\ to_string(frame.locals.result.err) = "io error"
    /\ chain_messages(frame.locals.result.err) = <<"io error", "config">>

\* C25: the error of wrap_err(Err(e)), of Error::new(e) and of anyerr!(e)
\* downcasts to the type of e and yields a value equal to e, also after any
\* number of context layers and `?` returns.
C25_DowncastRoundTrip ==
    \A p \in {"wrap_err", "map_err", "anyerr"} :
        (Built(p) /\ is_err(src)) =>
            /\ is_err(r[p])
            /\ downcast_ref(r[p].err, TypeOf(src.err))
            /\ downcast(r[p].err, TypeOf(src.err)) = Ok(src.err)

C25_Witness ==
    /\ src = Err(<<CustomFailed, IoNotFound>>)
    /\ Len(layers) = 2
    /\ level = 1
    /\ is_err(r["wrap_err"])
    /\ r["wrap_err"].err.vtable = "context_chain"
    /\ downcast(r["wrap_err"].err, "CustomError")
            = Ok(<<CustomFailed, IoNotFound>>)
    /\ downcast(r["anyerr"].err, "CustomError")
            = Ok(<<CustomFailed, IoNotFound>>)

\* C26: boxing a unified error x, built by any path and under any context
\* layers, and passing the box to from_boxed_error gives an error with the
\* to_string() and the chain() messages of x; repeated round trips never
\* grow, shrink or reorder the chain.
C26_RenormalizeIdempotent ==
    (frame.fn = "renormalize" /\ frame.pc \in {"into", "from_boxed_error",
                                                "done"}) =>
        LET x == frame.locals.value
            y == frame.locals.cur
        IN  /\ to_string(y) = to_string(x)
            /\ chain_messages(y) = chain_messages(x)
            /\ chain_count(y) = Len(frame.args.contexts)
                    + (IF frame.args.path = "anyerr!" THEN 1
                       ELSE IF frame.args.path = "context"
                       THEN 1 + Len(frame.args.e)
                       ELSE Len(frame.args.e))
            /\ frame.pc = "from_boxed_error" =>
                    /\ BoxDisplay(frame.locals.result) = to_string(x)
                    /\ Messages(Walk(frame.locals.result.boxed))
                            = chain_messages(x)
            /\ frame.pc = "done" =>
                    /\ frame.ret = y
                    /\ frame.locals.count = frame.args.rounds
                    /\ y.vtable = "boxed"

C26_Witness ==
    /\ Returned("renormalize")
    /\ frame.args.path = "from_boxed_error"
    /\ frame.args.e = <<EyreConfig, CustomFailed, IoNotFound>>
    /\ frame.args.contexts = <<"level2 context", "level1 context">>
    /\ frame.locals.count = 2
    /\ chain_messages(frame.ret)
            = <<"level1 context", "level2 context", "failed to read config",
                "CustomError: operation failed", "file not found">>

====
